---- MODULE Spec2Model ----
(***************************************************************************)
(* canopy: a tree node that is either a Leaf or a Parent (src/src/node.rs). *)
(*                                                                         *)
(* A NodeRef<T> = Rc<RefCell<Node<T>>> is modelled as an index into `heap`, *)
(* the sequence of all nodes allocated so far (the caller keeps a handle to *)
(* every node it has built).  Rc::ptr_eq is equality of indices.  None is   *)
(* the index 0.  T is bool, whose Default is false.                         *)
(***************************************************************************)
EXTENDS Integers, Sequences, FiniteSets

VARIABLES
    heap,   \* every node allocated so far, by handle
    old,    \* the heap as it was before the last call
    last,   \* the last call: operation, arguments, result
    run,    \* handles and values of the current run of inserts on one parent
    budget, \* number of calls the caller still makes
    views,  \* the cells of which the caller holds a Ref (shared) or RefMut (excl)
    iter,   \* the caller's NodeIter: its queue and what it has yielded
    prior,  \* the call before the last one
    before, \* the heap as it was before that call
    held    \* the nodes of which the caller holds a handle (an Rc)

vars == <<heap, old, last, run, budget, views, iter, prior, before, held>>

\* ------------------------------------------------------------------ bounds
\* the number of calls the caller makes
MaxSteps == 4

\* ------------------------------------------------------------- data model
None == 0

\* T = bool (NodeRef<bool> in the tests); <bool as Default>::default() is false
Default == FALSE
Values == BOOLEAN

\* Node::Leaf { prev, value }
Leaf(pv, v) == [tag |-> "Leaf", prev |-> pv, value |-> v]

\* Node::Parent { value, prev, next }
Parent(v, pv, nx) == [tag |-> "Parent", value |-> v, prev |-> pv, next |-> nx]

\* Node::parent(value)
parent(v) == Parent(v, None, <<>>)

\* Node::leaf(value, prev)
leaf(v, pv) == Leaf(pv, v)

\* ------------------------------------------------------------- accessors
is_root(nd) == IF nd.tag = "Parent" THEN nd.prev = None ELSE FALSE

\* Node::expect_root(&self): its test is is_leaf, not is_root
expect_root(nd) ==
    IF nd.tag = "Leaf" THEN "Ok" ELSE "ExpectedARootNode"

is_leaf(nd) == nd.tag = "Leaf"

has_children(nd) == IF nd.tag = "Parent" THEN nd.next # <<>> ELSE FALSE

value(nd) == nd.value

children(nd) == IF nd.tag = "Parent" THEN nd.next ELSE <<>>

prev(nd) == nd.prev

\* ------------------------------------------------------- shape transitions
\* upgrade_inner building the Parent without the Leaf's back-reference
upgrade_inner_lose_prev(self, nd) ==
    IF self.tag = "Leaf"
    THEN [self |-> Parent(self.value, None, <<nd>>), res |-> "Ok"]
    ELSE [self |-> self, res |-> "ParentUpgradeNotAllowed"]

\* upgrade_inner pushing the node onto a Parent before refusing
upgrade_inner_push(self, nd) ==
    IF self.tag = "Leaf"
    THEN [self |-> Parent(self.value, self.prev, <<nd>>), res |-> "Ok"]
    ELSE [self |-> [self EXCEPT !.next = Append(@, nd)],
          res |-> "ParentUpgradeNotAllowed"]

\* Node::upgrade_inner(&mut self, node): the rewritten self and the result.
upgrade_inner(self, nd) ==
    IF self.tag = "Leaf"
    THEN [self |-> Parent(self.value, self.prev, <<nd>>), res |-> "Ok"]
    ELSE [self |-> self, res |-> "ParentUpgradeNotAllowed"]

\* an upgrade that also points the node's back-reference at the parent
upgrade_set_prev(H, p, nd) ==
    LET r == upgrade_inner(H[p], nd)
        H1 == [H EXCEPT ![p] = r.self]
    IN  [heap |-> IF r.res = "Ok" THEN [H1 EXCEPT ![nd].prev = p] ELSE H1,
         res |-> r.res]

\* Node::upgrade(parent, node) on heap H.
upgrade(H, p, nd) ==
    LET r == upgrade_inner(H[p], nd)
    IN  [heap |-> [H EXCEPT ![p] = r.self], res |-> r.res]

\* downgrade_inner examining the back-reference before the children
downgrade_inner_root_first(self) ==
    IF self.tag = "Parent"
    THEN IF self.prev = None
         THEN [self |-> Parent(Default, None, self.next),
               res |-> "RootDowngradeNotAllowed", n |-> 0]
         ELSE IF Len(self.next) # 0
              THEN [self |-> self, res |-> "IllegalDowngradeWithChildren",
                    n |-> Len(self.next)]
              ELSE [self |-> Leaf(self.prev, self.value), res |-> "Ok", n |-> 0]
    ELSE [self |-> self, res |-> "DowngradeNotParent", n |-> 0]

\* downgrade_inner turning a root without children into a Leaf
downgrade_inner_of_root(self) ==
    IF self.tag = "Parent"
    THEN IF Len(self.next) # 0
         THEN [self |-> self, res |-> "IllegalDowngradeWithChildren",
               n |-> Len(self.next)]
         ELSE [self |-> Leaf(self.prev, self.value), res |-> "Ok", n |-> 0]
    ELSE [self |-> self, res |-> "DowngradeNotParent", n |-> 0]

\* downgrade_inner leaving the taken value out of the Leaf it builds
downgrade_inner_lose_value(self) ==
    IF self.tag = "Parent"
    THEN IF Len(self.next) # 0
         THEN [self |-> self, res |-> "IllegalDowngradeWithChildren",
               n |-> Len(self.next)]
         ELSE IF self.prev # None
              THEN [self |-> Leaf(self.prev, Default), res |-> "Ok", n |-> 0]
              ELSE [self |-> Parent(Default, None, self.next),
                    res |-> "RootDowngradeNotAllowed", n |-> 0]
    ELSE [self |-> self, res |-> "DowngradeNotParent", n |-> 0]

\* Node::downgrade_inner(&mut self).  std::mem::take(value) runs before the
\* back-reference is examined, so the root failure leaves Default behind.
downgrade_inner(self) ==
    IF self.tag = "Parent"
    THEN IF Len(self.next) # 0
         THEN [self |-> self, res |-> "IllegalDowngradeWithChildren",
               n |-> Len(self.next)]
         ELSE IF self.prev # None
              THEN [self |-> Leaf(self.prev, self.value), res |-> "Ok", n |-> 0]
              ELSE [self |-> Parent(Default, None, self.next),
                    res |-> "RootDowngradeNotAllowed", n |-> 0]
    ELSE [self |-> self, res |-> "DowngradeNotParent", n |-> 0]

\* Node::downgrade(node) on heap H.
downgrade(H, nd) ==
    LET r == downgrade_inner(H[nd])
    IN  [heap |-> [H EXCEPT ![nd] = r.self], res |-> r.res, n |-> r.n]

\* ------------------------------------------------------ mutation protocol
\* a push at the front
push_front(s, x) == <<x>> \o s

\* Vec::push
push(s, x) == Append(s, x)

\* a remove that takes out the first entry, whatever the index
remove_head(s, index) == Tail(s)

\* Vec::remove(index), indices from 1
remove(s, index) == SubSeq(s, 1, index - 1) \o SubSeq(s, index + 1, Len(s))

\* next.iter().position(|c| Rc::ptr_eq(c, child)); 0 stands for Option::None
position(nx, child) ==
    IF \E i \in 1..Len(nx) : nx[i] = child
    THEN CHOOSE i \in 1..Len(nx) :
             nx[i] = child /\ \A j \in 1..(i - 1) : nx[j] # child
    ELSE 0

\* a take that leaves the field as it is
take_prev_keep(nd) == nd

\* Option::take on the prev field of a node
take_prev(nd) == [nd EXCEPT !.prev = None]

\* The attach step of inner_insert: upgrade a Leaf, push onto a Parent.
attach(H, p, nd) ==
    IF H[p].tag = "Leaf"
    THEN upgrade(H, p, nd)
    ELSE [heap |-> [H EXCEPT ![p].next = push(@, nd)], res |-> "Ok"]

\* Node::inner_insert(parent, value): the new node is allocated first.
inner_insert(H, p, v) ==
    LET id == Len(H) + 1
        r  == attach(Append(H, leaf(v, p)), p, id)
    IN  [heap |-> r.heap, res |-> r.res, node |-> id]

\* Node::insert(parent, value)
insert(H, p, v) == inner_insert(H, p, v)

\* insert_node(parent, node): overwrite node's back-reference, then attach.
insert_node(H, p, nd) == attach([H EXCEPT ![nd].prev = p], p, nd)

\* a removal that never downgrades the parent
pop_downgrade_never(H, p) == [heap |-> H, res |-> "OkTrue"]

\* The auto-downgrade at the end of a successful removal in inner_pop.
pop_downgrade(H, p) ==
    IF H[p].next = <<>> /\ H[p].prev # None
    THEN LET d == downgrade_inner(H[p])
         IN  [heap |-> [H EXCEPT ![p] = d.self],
              res |-> IF d.res = "Ok" THEN "OkTrue" ELSE d.res]
    ELSE [heap |-> H, res |-> "OkTrue"]

\* The cells of which a view is outstanding in V
Viewed(V) == V.shared \cup V.excl

\* What a call leaves when it panics with the nodes as in H
Panicked(H) == [heap |-> H, res |-> "Panic", n |-> 0, node |-> None]

\* RefCell::borrow_mut on cell c, then r: it panics (BorrowMutError) when a
\* view of c is outstanding.
borrow_mut(H, V, c, r) == IF c \in Viewed(V) THEN Panicked(H) ELSE r

\* inner_pop clearing the child's back-reference when it does not find it
inner_pop_clear_unfound(H, V, p, child) ==
    IF H[p].tag = "Leaf"
    THEN [heap |-> H, res |-> "NotAParent"]
    ELSE LET index == position(H[p].next, child)
         IN  IF index = 0
             THEN [heap |-> [H EXCEPT ![child] = take_prev(@)],
                   res |-> "OkFalse"]
             ELSE LET H1 == [H EXCEPT ![p].next = remove(@, index)]
                  IN  borrow_mut(H1, [V EXCEPT !.excl = @ \cup {p}], child,
                          pop_downgrade([H1 EXCEPT ![child] = take_prev(@)], p))

\* inner_pop clearing the child's back-reference before it refuses a Leaf
inner_pop_clear_first(H, V, p, child) ==
    IF H[p].tag = "Leaf"
    THEN [heap |-> [H EXCEPT ![child] = take_prev(@)], res |-> "NotAParent"]
    ELSE LET index == position(H[p].next, child)
         IN  IF index = 0
             THEN [heap |-> H, res |-> "OkFalse"]
             ELSE LET H1 == [H EXCEPT ![p].next = remove(@, index)]
                  IN  borrow_mut(H1, [V EXCEPT !.excl = @ \cup {p}], child,
                          pop_downgrade([H1 EXCEPT ![child] = take_prev(@)], p))

\* Node::inner_pop(&mut self, child), self being H[p], exclusively borrowed
\* by Node::pop.  child.borrow_mut() on a cell already borrowed panics
\* (BorrowMutError), after the entry has been removed.
inner_pop(H, V, p, child) ==
    IF H[p].tag = "Leaf"
    THEN [heap |-> H, res |-> "NotAParent"]
    ELSE LET index == position(H[p].next, child)
         IN  IF index = 0
             THEN [heap |-> H, res |-> "OkFalse"]
             ELSE LET H1 == [H EXCEPT ![p].next = remove(@, index)]
                  IN  borrow_mut(H1, [V EXCEPT !.excl = @ \cup {p}], child,
                          pop_downgrade([H1 EXCEPT ![child] = take_prev(@)], p))

\* Node::pop(parent, child)
pop(H, V, p, child) == borrow_mut(H, V, p, inner_pop(H, V, p, child))

\* ---------------------------------------------------------------- iterator
\* NodeIter::new(node): the queue holds the start node
new(nd) == <<nd>>

\* an extend that puts the children in front of the queue
extend_front(queue, nx) == nx \o queue

\* VecDeque::extend: the children go to the back, in their stored order
extend(queue, nx) == queue \o nx

\* RefCell::borrow on cell c, then r: it panics (BorrowError) when the caller
\* holds a RefMut of c.
borrow(V, c, r, onpanic) == IF c \in V.excl THEN onpanic ELSE r

\* NodeIter::next(&mut self): the queue it leaves, the item it returns (None
\* for Option::None).  A Leaf at the front is taken off the queue and None is
\* returned, whatever the queue still holds.
next(H, V, queue) ==
    IF queue = <<>>
    THEN [queue |-> queue, item |-> None, res |-> "None"]
    ELSE LET item == Head(queue)
             rest == Tail(queue)
         IN  borrow(V, item,
                    IF H[item].tag = "Parent"
                    THEN [queue |-> extend(rest, H[item].next),
                          item |-> item, res |-> "Some"]
                    ELSE [queue |-> rest, item |-> None, res |-> "None"],
                    [queue |-> rest, item |-> None, res |-> "Panic"])

\* -------------------------------------------------------------- ownership
\* The nodes that hold an Rc of n: prev is an Option<NodeRef<T>>, a strong
\* reference like the entries of next
Owners(H, n) ==
    {m \in 1..Len(H) :
        prev(H[m]) = n \/ \E i \in 1..Len(children(H[m])) : children(H[m])[i] = n}

\* Rc drop: a node with no handle outside the nodes and no owner left is
\* destroyed, and with it the references it holds.  F is destroyed already.
RECURSIVE Destroyed(_, _, _)
Destroyed(H, handles, F) ==
    LET G == F \cup {n \in (1..Len(H)) \ handles : Owners(H, n) \subseteq F}
    IN  IF G = F THEN F ELSE Destroyed(H, handles, G)

\* The nodes that exist while the caller holds the given handles
Alive(H, handles) == (1..Len(H)) \ Destroyed(H, handles, {})

\* ---------------------------------------------------------------- actions
Allocated == 1..Len(heap)

\* A panic unwinds the caller: no further call is made.
Running == last.res # "Panic" /\ budget > 0

\* op(a, b, v) returned res; b is the node returned by a constructor or by
\* insert; n is the count carried by IllegalDowngradeWithChildren.
Call(op, a, b, v, res, n) ==
    [op |-> op, a |-> a, b |-> b, v |-> v, res |-> res, n |-> n]

\* The caller holds no view
NoViews == [shared |-> {}, excl |-> {}]

\* The caller has no iterator
NoIter == [state |-> "none", start |-> None, queue |-> <<>>, out |-> <<>>]

Init ==
    /\ heap = <<>>
    /\ old = <<>>
    /\ last = Call("init", None, None, Default, "none", 0)
    /\ run = <<>>
    /\ budget = MaxSteps
    /\ views = NoViews
    /\ iter = NoIter
    /\ prior = Call("init", None, None, Default, "none", 0)
    /\ before = <<>>
    /\ held = {}

Step(H, call, rn) ==
    /\ heap' = H
    /\ held' = held \cup ((Len(heap) + 1)..Len(H))
    /\ old' = heap
    /\ last' = call
    /\ run' = rn
    /\ budget' = budget - 1
    /\ prior' = last
    /\ before' = old
    /\ UNCHANGED <<views, iter>>

MakeParent(v) ==
    /\ Running
    /\ Step(Append(heap, parent(v)),
            Call("make_parent", None, Len(heap) + 1, v, "Ok", 0), <<>>)

MakeLeaf(v, pv) ==
    /\ Running
    /\ Step(Append(heap, leaf(v, pv)),
            Call("make_leaf", pv, Len(heap) + 1, v, "Ok", 0), <<>>)

Insert(p, v) ==
    /\ Running
    /\ LET r == borrow_mut(heap, views, p, insert(heap, p, v))
           e == [node |-> r.node, v |-> v]
       IN  Step(r.heap, Call("insert", p, r.node, v, r.res, 0),
                IF last.op = "insert" /\ last.a = p
                THEN Append(run, e) ELSE <<e>>)

InsertNode(p, nd) ==
    /\ Running
    /\ LET r == IF {p, nd} \cap Viewed(views) # {}
                THEN [heap |-> heap, res |-> "AlreadyBorrowed"]
                ELSE insert_node(heap, p, nd)
       IN  Step(r.heap, Call("insert_node", p, nd, Default, r.res, 0), <<>>)

Upgrade(p, nd) ==
    /\ Running
    /\ LET r == borrow_mut(heap, views, p, upgrade(heap, p, nd))
       IN  Step(r.heap, Call("upgrade", p, nd, Default, r.res, 0), <<>>)

Downgrade(nd) ==
    /\ Running
    /\ LET r == borrow_mut(heap, views, nd, downgrade(heap, nd))
       IN  Step(r.heap, Call("downgrade", nd, None, Default, r.res, r.n), <<>>)

Pop(p, child) ==
    /\ Running
    /\ LET r == pop(heap, views, p, child)
       IN  Step(r.heap, Call("pop", p, child, Default, r.res, 0), <<>>)

\* The caller's calls that take or drop a view leave the nodes as they are.
View(call, V) ==
    /\ heap' = heap
    /\ old' = heap
    /\ last' = call
    /\ run' = <<>>
    /\ budget' = budget - 1
    /\ prior' = last
    /\ before' = old
    /\ views' = V
    /\ UNCHANGED <<iter, held>>

\* let r = node.borrow(): the caller takes a shared view (a Ref) of nd
Borrow(nd) ==
    /\ Running
    /\ nd \notin views.excl
    /\ View(Call("borrow", nd, None, Default, "Ok", 0),
            [views EXCEPT !.shared = @ \cup {nd}])

\* let r = node.borrow_mut(): the caller takes the exclusive view (a RefMut)
BorrowMut(nd) ==
    /\ Running
    /\ nd \notin Viewed(views)
    /\ View(Call("borrow_mut", nd, None, Default, "Ok", 0),
            [views EXCEPT !.excl = @ \cup {nd}])

\* drop(r): the caller drops its views of nd
Release(nd) ==
    /\ Running
    /\ nd \in Viewed(views)
    /\ View(Call("drop", nd, None, Default, "Ok", 0),
            [shared |-> views.shared \ {nd}, excl |-> views.excl \ {nd}])

\* drop(node): the caller drops its handle of nd
Drop(nd) ==
    /\ Running
    /\ nd \in held
    /\ heap' = heap
    /\ old' = heap
    /\ last' = Call("drop_handle", nd, None, Default, "Ok", 0)
    /\ run' = <<>>
    /\ budget' = budget - 1
    /\ prior' = last
    /\ before' = old
    /\ held' = held \ {nd}
    /\ UNCHANGED <<views, iter>>

\* node.borrow().prev(): the caller resolves the back-reference of nd and
\* keeps the handle it gets
ResolvePrev(nd) ==
    /\ Running
    /\ nd \notin views.excl
    /\ LET r == prev(heap[nd])
       IN  /\ last' = Call("prev", nd, r, Default,
                           IF r = None THEN "None" ELSE "Some", 0)
           /\ held' = held \cup ({r} \ {None})
    /\ heap' = heap
    /\ old' = heap
    /\ run' = <<>>
    /\ budget' = budget - 1
    /\ prior' = last
    /\ before' = old
    /\ UNCHANGED <<views, iter>>

\* Node::iter(node): the caller takes an iterator that starts at node
Iterate(nd) ==
    /\ Running
    /\ heap' = heap
    /\ old' = heap
    /\ last' = Call("iter", nd, None, Default, "Ok", 0)
    /\ run' = <<>>
    /\ budget' = budget - 1
    /\ prior' = last
    /\ before' = old
    /\ iter' = [state |-> "live", start |-> nd, queue |-> new(nd), out |-> <<>>]
    /\ UNCHANGED <<views, held>>

\* One call of NodeIter::next by a caller that, like a for loop, stops at the
\* first None; out is what the iterator has yielded so far.
IterNext ==
    /\ Running
    /\ iter.state = "live"
    /\ LET r == next(heap, views, iter.queue)
       IN  /\ last' = Call("next", iter.start, r.item, Default, r.res, 0)
           /\ iter' = [iter EXCEPT
                          !.queue = r.queue,
                          !.out = IF r.res = "Some" THEN Append(@, r.item) ELSE @,
                          !.state = IF r.res = "Some" THEN "live" ELSE "ended"]
    /\ heap' = heap
    /\ old' = heap
    /\ run' = <<>>
    /\ budget' = budget - 1
    /\ prior' = last
    /\ before' = old
    /\ UNCHANGED <<views, held>>

Next ==
    \/ \E v \in Values : MakeParent(v)
    \/ \E v \in Values, pv \in {None} \cup Allocated : MakeLeaf(v, pv)
    \/ \E p \in Allocated, v \in Values : Insert(p, v)
    \/ \E p \in Allocated, nd \in Allocated : InsertNode(p, nd)
    \/ \E p \in Allocated, nd \in Allocated : Upgrade(p, nd)
    \/ \E nd \in Allocated : Downgrade(nd)
    \/ \E p \in Allocated, child \in Allocated : Pop(p, child)

Spec == Init /\ [][Next]_vars

\* The operations whose code is in node.rs: all but insert_node.
NextSource ==
    \/ \E v \in Values : MakeParent(v)
    \/ \E v \in Values, pv \in {None} \cup Allocated : MakeLeaf(v, pv)
    \/ \E p \in Allocated, v \in Values : Insert(p, v)
    \/ \E p \in Allocated, nd \in Allocated : Upgrade(p, nd)
    \/ \E nd \in Allocated : Downgrade(nd)
    \/ \E p \in Allocated, child \in Allocated : Pop(p, child)

SpecSource == Init /\ [][NextSource]_vars

\* Trees built by make_parent and insert, re-arranged by pop and insert_node,
\* by a caller that makes two more calls.
InitAttach ==
    /\ heap = <<>>
    /\ old = <<>>
    /\ last = Call("init", None, None, Default, "none", 0)
    /\ run = <<>>
    /\ budget = MaxSteps + 2
    /\ views = NoViews
    /\ iter = NoIter
    /\ prior = Call("init", None, None, Default, "none", 0)
    /\ before = <<>>
    /\ held = {}

NextAttach ==
    \/ \E v \in Values : MakeParent(v)
    \/ \E p \in Allocated, v \in Values : Insert(p, v)
    \/ \E p \in Allocated, nd \in Allocated : InsertNode(p, nd)
    \/ \E p \in Allocated, child \in Allocated : Pop(p, child)

SpecAttach == InitAttach /\ [][NextAttach]_vars

\* Nodes built by the constructors, then insert, insert_node and pop only.
NextMembership ==
    \/ \E v \in Values : MakeParent(v)
    \/ \E v \in Values, pv \in {None} \cup Allocated : MakeLeaf(v, pv)
    \/ \E p \in Allocated, v \in Values : Insert(p, v)
    \/ \E p \in Allocated, nd \in Allocated : InsertNode(p, nd)
    \/ \E p \in Allocated, child \in Allocated : Pop(p, child)

SpecMembership == Init /\ [][NextMembership]_vars

\* Nodes are built, then iterated: the caller keeps four calls for the
\* iterator, and leaves the nodes alone once it has one.
InitIter ==
    /\ heap = <<>>
    /\ old = <<>>
    /\ last = Call("init", None, None, Default, "none", 0)
    /\ run = <<>>
    /\ budget = MaxSteps + 4
    /\ views = NoViews
    /\ iter = NoIter
    /\ prior = Call("init", None, None, Default, "none", 0)
    /\ before = <<>>
    /\ held = {}

Building == iter.state = "none" /\ budget > 4

\* A tree built by make_parent and insert, then iterated from any node.
NextLevelOrder ==
    \/ Building /\ \E v \in Values : MakeParent(v)
    \/ Building /\ \E p \in Allocated, v \in Values : Insert(p, v)
    \/ iter.state = "none" /\ \E nd \in Allocated : Iterate(nd)
    \/ IterNext

SpecLevelOrder == InitIter /\ [][NextLevelOrder]_vars

\* Any nodes the operations of node.rs build, then iterated from any node.
NextIter ==
    \/ Building /\ \E v \in Values : MakeParent(v)
    \/ Building /\ \E v \in Values, pv \in {None} \cup Allocated : MakeLeaf(v, pv)
    \/ Building /\ \E p \in Allocated, v \in Values : Insert(p, v)
    \/ Building /\ \E p \in Allocated, nd \in Allocated : Upgrade(p, nd)
    \/ Building /\ \E nd \in Allocated : Downgrade(nd)
    \/ Building /\ \E p \in Allocated, child \in Allocated : Pop(p, child)
    \/ iter.state = "none" /\ \E nd \in Allocated : Iterate(nd)
    \/ IterNext

SpecIter == InitIter /\ [][NextIter]_vars

\* The operations of node.rs, called by a caller that takes and drops views.
NextBorrow ==
    \/ \E v \in Values : MakeParent(v)
    \/ \E v \in Values, pv \in {None} \cup Allocated : MakeLeaf(v, pv)
    \/ \E p \in Allocated, v \in Values : Insert(p, v)
    \/ \E p \in Allocated, nd \in Allocated : Upgrade(p, nd)
    \/ \E nd \in Allocated : Downgrade(nd)
    \/ \E p \in Allocated, child \in Allocated : Pop(p, child)
    \/ \E nd \in Allocated : Borrow(nd)
    \/ \E nd \in Allocated : BorrowMut(nd)
    \/ \E nd \in Allocated : Release(nd)

SpecBorrow == Init /\ [][NextBorrow]_vars

\* The operations of node.rs, called on the handles the caller holds by a
\* caller that drops handles and resolves back-references.
NextOwn ==
    \/ \E v \in Values : MakeParent(v)
    \/ \E v \in Values, pv \in {None} \cup held : MakeLeaf(v, pv)
    \/ \E p \in held, v \in Values : Insert(p, v)
    \/ \E p \in held, nd \in held : Upgrade(p, nd)
    \/ \E nd \in held : Downgrade(nd)
    \/ \E p \in held, child \in held : Pop(p, child)
    \/ \E nd \in held : Drop(nd)
    \/ \E nd \in held : ResolvePrev(nd)

SpecOwn == Init /\ [][NextOwn]_vars

\* ----------------------------------------------------------------- claims
\* Number of entries of s that are the node x
Count(s, x) == Cardinality({i \in 1..Len(s) : s[i] = x})

\* s with its entry at index i taken out
Without(s, i) == [k \in 1..(Len(s) - 1) |-> IF k < i THEN s[k] ELSE s[k + 1]]

\* The last call was op and has returned res
Returned(op, res) == last.op = op /\ last.res = res

\* C1: pop(parent, child) on a Parent-shaped parent returns Ok(true) iff some
\* entry of parent.children is the node child itself; then exactly the first
\* such entry is removed and the other entries keep their order.  Otherwise
\* it returns Ok(false) and parent.children is as it was.
C1_PopByIdentity ==
    (last.op = "pop" /\ old[last.a].tag = "Parent") =>
        LET was == old[last.a].next
            now == children(heap[last.a])
        IN  IF Count(was, last.b) > 0
            THEN /\ last.res = "OkTrue"
                 /\ \E i \in 1..Len(was) :
                        /\ was[i] = last.b
                        /\ \A j \in 1..(i - 1) : was[j] # last.b
                        /\ now = Without(was, i)
            ELSE /\ last.res = "OkFalse"
                 /\ now = was

\* C1 holds of every pop that does not abort: the calls it fails on are the
\* pops of a node out of its own children.
C1_PopByIdentityUnlessAborted ==
    last.res # "Panic" => C1_PopByIdentity

\* A pop has removed the first of two children of a parent, by identity.
C1_Witness ==
    /\ Returned("pop", "OkTrue")
    /\ Len(old[last.a].next) = 2
    /\ old[last.a].next[1] = last.b
    /\ Len(children(heap[last.a])) = 1

\* C2: after a pop that returned Ok(true), the popped child has no
\* back-reference, whatever its shape.
C2_PoppedHasNoParent ==
    Returned("pop", "OkTrue") => prev(heap[last.b]) = None

\* A Parent-shaped child, whose back-reference was present, has been popped.
C2_Witness ==
    /\ Returned("pop", "OkTrue")
    /\ heap[last.b].tag = "Parent"
    /\ old[last.b].prev # None

\* C3: a successful pop of the last child turns a parent with a present
\* back-reference into a Leaf with the same value and back-reference, and
\* leaves a root Parent-shaped with no children; while children remain the
\* parent keeps its shape.
C3_PopLastChild ==
    Returned("pop", "OkTrue") =>
        LET was == old[last.a]
            now == heap[last.a]
        IN  IF Len(was.next) = 1
            THEN IF was.prev # None
                 THEN now = Leaf(was.prev, was.value)
                 ELSE now = Parent(was.value, None, <<>>)
            ELSE now.tag = was.tag

\* The only child of a non-root parent, whose value is not the default, has
\* been popped and the parent is a Leaf.
C3_Witness ==
    /\ Returned("pop", "OkTrue")
    /\ Len(old[last.a].next) = 1
    /\ old[last.a].prev # None
    /\ old[last.a].value # Default
    /\ is_leaf(heap[last.a])

\* C4: after n consecutive inserts on one parent, the parent's children end
\* with the n returned nodes in call order, holding the inserted values in
\* that order; the children present before an insert stay where they were.
C4_InsertAppends ==
    last.op = "insert" =>
        LET ch  == children(heap[last.a])
            was == children(old[last.a])
            k   == Len(run)
        IN  /\ k >= 1
            /\ Len(ch) >= k
            /\ \A i \in 1..k :
                   /\ ch[Len(ch) - k + i] = run[i].node
                   /\ value(heap[run[i].node]) = run[i].v
            /\ Len(ch) = Len(was) + 1
            /\ \A i \in 1..Len(was) : ch[i] = was[i]

\* Three inserts in a row on one parent, not all of the same value.
C4_Witness ==
    /\ last.op = "insert"
    /\ Len(run) = 3
    /\ run[1].v # run[2].v

\* C5: insert(L, v) on a Leaf L returns a new handle h; L is then a Parent
\* with children [h] and its old value and back-reference, and h is a Leaf
\* with value v whose back-reference is L.
C5_InsertIntoLeaf ==
    (last.op = "insert" /\ is_leaf(old[last.a])) =>
        /\ last.res = "Ok"
        /\ last.b \notin 1..Len(old)
        /\ ~is_leaf(heap[last.a])
        /\ children(heap[last.a]) = <<last.b>>
        /\ value(heap[last.a]) = value(old[last.a])
        /\ prev(heap[last.a]) = prev(old[last.a])
        /\ heap[last.b] = Leaf(last.a, last.v)

\* An insert into a Leaf that has a back-reference and a value other than
\* the default and other than the inserted one.
C5_Witness ==
    /\ last.op = "insert"
    /\ is_leaf(old[last.a])
    /\ prev(old[last.a]) # None
    /\ value(old[last.a]) # Default
    /\ value(old[last.a]) # last.v

\* Number of entries, over all children sequences of heap H, that are node c
Memberships(H, c) ==
    LET RECURSIVE Sum(_)
        Sum(k) == IF k = 0 THEN 0 ELSE Count(children(H[k]), c) + Sum(k - 1)
    IN  Sum(Len(H))

\* What insert_node(last.a, last.b) leaves behind
Attached ==
    /\ last.res = "Ok"
    /\ prev(heap[last.b]) = last.a
    /\ ~is_leaf(heap[last.a])
    /\ IF is_leaf(old[last.a])
       THEN children(heap[last.a]) = <<last.b>>
       ELSE children(heap[last.a]) = Append(children(old[last.a]), last.b)

\* What pop(R, c) returning true and then insert_node(R2, c) leave in heap H
Reattached(H, R, R2, c) ==
    /\ Count(children(H[R]), c) = 0
    /\ Count(children(H[R2]), c) = 1
    /\ prev(H[c]) = R2

\* C6: after insert_node(parent, node), node's back-reference designates
\* parent and node is the last entry of parent.children, a Leaf parent having
\* become a Parent with children [node].  When the call follows a
\* pop(R, c) that returned true and attaches c to another node R2, c is not
\* in R.children, occurs exactly once in R2.children, and c's parent is R2.
C6_InsertNodeAttaches ==
    [][(last'.op = "insert_node" /\ budget' = budget - 1) =>
          /\ Attached'
          /\ (/\ Returned("pop", "OkTrue")
              /\ last'.b = last.b
              /\ last'.a \notin {last.a, last.b})
             => Reattached(heap', last.a, last'.a, last'.b)]_vars

\* The first half of C6 alone
C6_Attached == last.op = "insert_node" => Attached

\* The second half of C6 for a child that the pop has left in no children
\* sequence at all
C6_ReattachedWhenDetached ==
    [][(/\ last'.op = "insert_node" /\ budget' = budget - 1
        /\ Returned("pop", "OkTrue")
        /\ last'.b = last.b
        /\ last'.a \notin {last.a, last.b}
        /\ Memberships(heap, last.b) = 0)
       => Reattached(heap', last.a, last'.a, last'.b)]_vars

\* C7: upgrade of a node that is already a Parent returns
\* ParentUpgradeNotAllowed and changes neither the node nor first_child.
C7_UpgradeOfParentRefused ==
    (last.op = "upgrade" /\ ~is_leaf(old[last.a])) =>
        /\ last.res = "ParentUpgradeNotAllowed"
        /\ heap = old

\* An upgrade, with another node, of a Parent that has children was refused.
C7_Witness ==
    /\ Returned("upgrade", "ParentUpgradeNotAllowed")
    /\ has_children(old[last.a])
    /\ last.b # last.a

\* C8: downgrade fails with DowngradeNotParent on a Leaf; else with
\* IllegalDowngradeWithChildren(n) on a Parent of n > 0 children, root or
\* not; else with RootDowngradeNotAllowed on a Parent without back-reference;
\* and succeeds in the one remaining case.
C8_DowngradeFailureOrder ==
    last.op = "downgrade" =>
        LET was == old[last.a]
        IN  IF is_leaf(was)
            THEN last.res = "DowngradeNotParent"
            ELSE IF Len(was.next) > 0
                 THEN /\ last.res = "IllegalDowngradeWithChildren"
                      /\ last.n = Len(was.next)
                 ELSE IF was.prev = None
                      THEN last.res = "RootDowngradeNotAllowed"
                      ELSE last.res = "Ok"

\* A downgrade of a root with two children reported the two children.
C8_Witness ==
    /\ Returned("downgrade", "IllegalDowngradeWithChildren")
    /\ is_root(old[last.a])
    /\ last.n = 2

\* C9: every node occurs in the children of at most one parent, and at most
\* once there.
C9_ExclusiveMembership ==
    \A c \in Allocated : Memberships(heap, c) <= 1

\* C10: an entry c of p.children has p as its back-reference; a node removed
\* by a successful pop has no back-reference and is no entry of that
\* parent's children any more.
C10_MembershipMatchesBackref ==
    /\ \A p \in Allocated : \A i \in 1..Len(children(heap[p])) :
           prev(heap[children(heap[p])[i]]) = p
    /\ Returned("pop", "OkTrue") =>
           /\ prev(heap[last.b]) = None
           /\ Count(children(heap[last.a]), last.b) = 0

\* C11: in every state reached by make_parent, make_leaf, insert, insert_node,
\* upgrade, downgrade and pop, every present back-reference designates a
\* Parent-shaped node, never a Leaf-shaped one.
C11_BackrefDesignatesParent ==
    \A c \in Allocated :
        prev(heap[c]) # None => ~is_leaf(heap[prev(heap[c])])

\* The first k nodes of the level-order (breadth-first) sequence of the nodes
\* reached from the queue q, siblings in stored order
RECURSIVE LevelOrder(_, _, _)
LevelOrder(H, q, k) ==
    IF k = 0 \/ q = <<>>
    THEN <<>>
    ELSE <<Head(q)>> \o LevelOrder(H, Tail(q) \o children(H[Head(q)]), k - 1)

\* The queue of a level-order traversal from the queue q after k visits
RECURSIVE Frontier(_, _, _)
Frontier(H, q, k) ==
    IF k = 0 \/ q = <<>>
    THEN q
    ELSE Frontier(H, Tail(q) \o children(H[Head(q)]), k - 1)

\* C12: iterate(root) over a tree built by make_parent and inserts yields
\* every node of the tree exactly once, in level order with siblings in
\* stored order (1,2,3,4,5 for the tree R = 1, R's children 2 and 3, and 3's
\* children 4 and 5).
C12_IterateLevelOrder ==
    (iter.state = "ended" /\ is_root(heap[iter.start])) =>
        /\ iter.out = LevelOrder(heap, <<iter.start>>, Len(heap))
        /\ \A c \in Allocated :
               Count(iter.out, c) =
                   IF c = iter.start \/ prev(heap[c]) # None THEN 1 ELSE 0

C14_NoAbort == views = NoViews => last.res # "Panic"

\* The last call was a mutating operation that needs exclusive access to a
\* node of which the caller holds a view.
NeedsViewed ==
    \/ /\ last.op \in {"insert", "insert_node", "upgrade", "downgrade", "pop"}
       /\ last.a \in Viewed(views)
    \/ /\ last.op \in {"insert_node", "pop"}
       /\ last.b \in Viewed(views)
       /\ last.op = "pop" => Count(children(old[last.a]), last.b) > 0

\* C15: a mutating operation that needs exclusive access to a node of which a
\* view, shared or exclusive, is outstanding fails with AlreadyBorrowed and
\* leaves every node as it was; it does not abort.
C15_AlreadyBorrowed ==
    NeedsViewed => last.res = "AlreadyBorrowed" /\ heap = old

\* C16: for every node of every reachable state, expect_root returns Ok
\* exactly when is_root is true, and the ExpectedRoot error otherwise: it
\* succeeds on a fresh make_parent node and fails on every Leaf.
C16_ExpectRootIffRoot ==
    \A c \in Allocated :
        IF is_root(heap[c])
        THEN expect_root(heap[c]) = "Ok"
        ELSE expect_root(heap[c]) = "ExpectedARootNode"

\* C17: pop(parent, child) on a Leaf-shaped parent returns NotAParent for
\* every child and changes nothing: parent stays a Leaf with its value and
\* back-reference, and child's back-reference is not cleared.
C17_PopOnLeaf ==
    (last.op = "pop" /\ is_leaf(old[last.a]) /\ last.a \notin Viewed(views)) =>
        /\ last.res = "NotAParent"
        /\ heap = old
        /\ heap[last.a] = Leaf(prev(old[last.a]), value(old[last.a]))
        /\ prev(heap[last.b]) = prev(old[last.b])

\* pop was called on a Leaf, with a child that has a back-reference
C17_Witness ==
    /\ Returned("pop", "NotAParent")
    /\ is_leaf(old[last.a])
    /\ last.b # last.a
    /\ prev(old[last.b]) # None

\* C18: in every state reached by make_parent, make_leaf, insert, insert_node
\* and pop, a node with a present back-reference is Parent-shaped iff its
\* children sequence is non-empty; only a root is Parent-shaped with no child.
C18_ShapeMatchesChildren ==
    \A c \in Allocated :
        prev(heap[c]) # None =>
            (~is_leaf(heap[c]) <=> children(heap[c]) # <<>>)

\* upgrade was called on a Leaf-shaped node of which no view is outstanding
UpgradeOfLeaf ==
    last.op = "upgrade" /\ is_leaf(old[last.a]) /\ last.a \notin Viewed(views)

\* The node of the last call has been rewritten to a Parent with its value,
\* its back-reference and the one child last.b
Upgraded ==
    /\ last.res = "Ok"
    /\ heap[last.a] = Parent(value(old[last.a]), prev(old[last.a]), <<last.b>>)
    /\ prev(old[last.a]) = None => is_root(heap[last.a])

\* C19 as stated: upgrade(node, first_child) on a Leaf-shaped node returns Ok
\* and rewrites node to a Parent with the same value, the same back-reference
\* and children == [first_child]; first_child is not modified.
C19_UpgradeOfLeaf ==
    UpgradeOfLeaf => Upgraded /\ heap[last.b] = old[last.b]

\* C19, amended: upgrade(node, first_child) on a Leaf-shaped node returns Ok
\* and rewrites node to a Parent with the same value, the same back-reference
\* and children == [first_child], a root when the back-reference is absent;
\* first_child is not modified unless it is node itself, and no other node is.
C19_UpgradeOfLeafDistinct ==
    UpgradeOfLeaf =>
        /\ Upgraded
        /\ \A c \in Allocated : c # last.a => heap[c] = old[c]

\* A Leaf with a back-reference and a value other than Default was upgraded
\* with another node, which has a back-reference too
C19_Witness ==
    /\ UpgradeOfLeaf
    /\ last.b # last.a
    /\ prev(old[last.a]) # None
    /\ value(old[last.a]) # Default
    /\ prev(old[last.b]) # None

\* Downgrade was called on a Parent with no children and a back-reference
DowngradeOfEmpty ==
    /\ last.op = "downgrade"
    /\ ~is_leaf(old[last.a])
    /\ children(old[last.a]) = <<>>
    /\ prev(old[last.a]) # None
    /\ last.a \notin Viewed(views)

\* pop has removed the only child of a Parent with a back-reference, and so
\* has called downgrade_inner on a Parent with no children
PopDowngrades ==
    /\ last.op = "pop"
    /\ children(old[last.a]) = <<last.b>>
    /\ prev(old[last.a]) # None
    /\ last.b # last.a
    /\ {last.a, last.b} \cap Viewed(views) = {}

\* C20: downgrade(node) on a Parent-shaped node with no children and a
\* present back-reference returns Ok and rewrites node to a Leaf with the
\* same value and the same back-reference; so does the downgrade that pop
\* performs once it has removed the last child.
C20_DowngradeOfEmpty ==
    /\ DowngradeOfEmpty =>
           /\ last.res = "Ok"
           /\ heap[last.a] = Leaf(prev(old[last.a]), value(old[last.a]))
           /\ \A c \in Allocated : c # last.a => heap[c] = old[c]
    /\ PopDowngrades =>
           /\ last.res = "OkTrue"
           /\ heap[last.a] = Leaf(prev(old[last.a]), value(old[last.a]))

\* An empty non-root Parent with a value other than Default was downgraded
C20_Witness ==
    DowngradeOfEmpty /\ value(old[last.a]) # Default

\* The typed errors an operation returns
Errors ==
    {"ParentUpgradeNotAllowed", "IllegalDowngradeWithChildren",
     "RootDowngradeNotAllowed", "DowngradeNotParent", "NotAParent",
     "AlreadyBorrowed"}

\* C21: an operation that returns an error leaves every node as it was: after
\* a failing upgrade, downgrade or pop the target node has the shape, value,
\* back-reference and children it had; downgrade of a root with no children
\* and downgrade of a Parent with children do not alter the node's value.
C21_ErrorsChangeNothing ==
    (last.op \in {"upgrade", "downgrade", "pop"} /\ last.res \in Errors) =>
        heap = old

\* C22: iterate(start) terminates on every structure that make_parent,
\* make_leaf, insert, insert_node, upgrade and pop can build: stepping the
\* iterator reaches end-of-sequence after finitely many yielded items.  The
\* nodes are left alone while it runs and next is a function of the nodes and
\* the queue, so a step that yields an item and leaves the queue as it found
\* it repeats forever: no such step is made.
C22_IterateTerminates ==
    [][(last'.op = "next" /\ last'.res = "Some" /\ heap' = heap)
          => iter'.queue # iter.queue]_vars

\* The last two calls were h = insert(P, v), which returned h, and pop(P, h)
RoundTrip ==
    /\ prior.op = "insert" /\ prior.res = "Ok"
    /\ last.op = "pop" /\ last.a = prior.a /\ last.b = prior.b

\* C23: h = insert(P, v) followed at once by pop(P, h) returns Ok(true) and
\* leaves P as it was before the insert when P was a Parent or a Leaf with a
\* back-reference; a Leaf without back-reference ends as a Parent with no
\* children.  Every node other than P and h is unchanged.
C23_InsertPopRoundTrip ==
    RoundTrip =>
        LET P == last.a
            was == before[P]
        IN  /\ last.res = "OkTrue"
            /\ heap[P] = IF is_leaf(was) /\ prev(was) = None
                         THEN Parent(value(was), None, <<>>)
                         ELSE was
            /\ Len(heap) = Len(before) + 1 /\ last.b = Len(heap)
            /\ \A c \in 1..Len(before) : c # P => heap[c] = before[c]

\* The round trip was made on a Leaf with a back-reference and a value other
\* than Default
C23_Witness ==
    /\ RoundTrip
    /\ is_leaf(before[last.a])
    /\ prev(before[last.a]) # None
    /\ value(before[last.a]) # Default

\* The round trip was made on a Parent that had a child
C23_WitnessParent ==
    RoundTrip /\ children(before[last.a]) # <<>>

\* The last call was one of the operations on existing nodes
Operated ==
    last.op \in {"insert", "insert_node", "upgrade", "downgrade", "pop"}

\* C24: a root never becomes a leaf.  In every step of insert, insert_node,
\* upgrade, downgrade or pop, a node that is a root before the step is not
\* Leaf-shaped after it; a node that changes from Parent-shaped to
\* Leaf-shaped has a back-reference before the step and after it.
C24_RootNeverLeaf ==
    Operated =>
        \A c \in 1..Len(old) :
            /\ is_root(old[c]) => ~is_leaf(heap[c])
            /\ (~is_leaf(old[c]) /\ is_leaf(heap[c])) =>
                   prev(old[c]) # None /\ prev(heap[c]) # None

\* pop has removed the only child of a root, which stays a Parent
C24_Witness ==
    /\ Returned("pop", "OkTrue")
    /\ is_root(old[last.a])
    /\ Len(children(old[last.a])) = 1
    /\ children(heap[last.a]) = <<>>

\* A step has turned a Parent into a Leaf
C24_WitnessDowngraded ==
    /\ Operated
    /\ \E c \in 1..Len(old) : ~is_leaf(old[c]) /\ is_leaf(heap[c])

\* downgrade was called on a root without children
C24_WitnessRoot ==
    /\ last.op = "downgrade"
    /\ is_root(old[last.a])
    /\ children(old[last.a]) = <<>>

\* C25: pop(parent, child) modifies at most parent's children sequence,
\* parent's shape and child's back-reference: parent keeps its value and its
\* back-reference, child its shape, value and children, and every other node
\* everything.  When pop returns Ok(false) no node changes at all.
C25_PopFrame ==
    last.op = "pop" =>
        LET p == last.a
            child == last.b
        IN  /\ \A c \in Allocated : c \notin {p, child} => heap[c] = old[c]
            /\ value(heap[p]) = value(old[p])
            /\ p # child =>
                   /\ prev(heap[p]) = prev(old[p])
                   /\ heap[child] = [old[child] EXCEPT !.prev = prev(heap[child])]
            /\ last.res = "OkFalse" => heap = old

\* pop has removed the only child of a Parent whose own parent and value are
\* there to be kept, and has downgraded it
C25_Witness ==
    /\ Returned("pop", "OkTrue")
    /\ last.a # last.b
    /\ ~is_leaf(old[last.a]) /\ is_leaf(heap[last.a])
    /\ value(old[last.a]) # Default
    /\ \E c \in Allocated : c \notin {last.a, last.b} /\ has_children(heap[c])

\* pop has not found a child that has a back-reference
C25_WitnessNotFound ==
    Returned("pop", "OkFalse") /\ prev(old[last.b]) # None

\* The handles outside the nodes: the caller's and those in its iterator
Handles == held \cup {iter.queue[i] : i \in 1..Len(iter.queue)}

\* P has an owning handle: one of Handles, or an entry of the children
\* sequence of a node that exists
Owned(P) ==
    \/ P \in Handles
    \/ \E m \in Alive(heap, Handles) :
           \E i \in 1..Len(children(heap[m])) : children(heap[m])[i] = P

\* C26: the back-reference is non-owning.  Once every owning handle of a node
\* P (the caller's handles and the entries in children sequences) is dropped,
\* P is destroyed and the back-reference of no node resolves to P: a
\* back-reference keeps no node alive.
C26_BackrefNonOwning ==
    \A P \in Allocated :
        ~Owned(P) =>
            /\ P \notin Alive(heap, Handles)
            /\ \A c \in Alive(heap, Handles) : prev(heap[c]) # P

====
